---------------------------- MODULE Spec2Model ----------------------------
(***************************************************************************)
(* Model of the benchmark orchestration scripts:                           *)
(*   - run_article_benchmarks.py : run_test_suite, run_benchmark,          *)
(*     start_database, stop_database, start_monitoring, stop_monitoring    *)
(*   - scripts/monitor_resources.py : ResourceMonitor                      *)
(*   - run_article_benchmarks.py : main, run_full_comparison_suite         *)
(*   - generate_benchmark_report.py, generate_report.py : main             *)
(*   - profile_server.py : ServerProfiler                                  *)
(*   - run_oracle_only_benchmarks.py : run_benchmark                       *)
(* Percentages and rates that the code rounds to two decimals are kept as  *)
(* integers counted in hundredths (three decimals: thousandths).           *)
(***************************************************************************)
EXTENDS Integers, Sequences, FiniteSets, TLC

VARIABLES
    \* ---- run_test_suite (run_article_benchmarks.py) ----
    test_configs,      \* argument: list of test configurations
    restart_per_test,  \* argument
    enable_queries,    \* argument
    suite_pc,          \* position of run_test_suite
    test_idx,          \* index of the current test (1-based)
    db_idx,            \* index of the current database (1-based)
    results,           \* the dict returned: db key -> list of records
    current_service,   \* original mode: the service started last ("None")
    svc,               \* last systemctl command issued per service
    faults,            \* number of environment failures met so far
    invoked,           \* history: jar invocations per <<db_idx, test_idx>>
    prov,              \* history: per db key, the test index of each record
    raised,            \* the exception that left run_test_suite ("None")
    \* ---- one call of a rate calculation of ResourceMonitor ----
    call_fn,           \* "cpu", "disk" or "net": the method called
    call_prev,         \* argument prev
    call_curr,         \* argument curr
    call_interval,     \* self.interval
    call_ret,          \* the value returned
    call_pc,           \* "called" or "returned"
    \* ---- the monitor process (scripts/monitor_resources.py) ----
    procfs,            \* the counters /proc shows (stat, diskstats, net/dev)
    self_interval,     \* self.interval
    running,           \* self.running
    metrics,           \* self.metrics
    prev_cpu_stats,    \* self.prev_cpu_stats
    prev_disk_stats,   \* self.prev_disk_stats
    prev_net_stats,    \* self.prev_net_stats
    mon_pc,            \* position of the monitor process
    sleep_left,        \* seconds left of time.sleep(self.interval)
    pipe,              \* messages in the stdout pipe of the monitor, unread
    output_file,       \* content of the output file (NoneRec: not written)
    save_count,        \* history: number of runs of save_results
    term_len,          \* history: <<len(self.metrics)>> when SIGTERM arrived
    \* ---- the driver: start_monitoring / stop_monitoring ----
    drv_pc,            \* position of the driver
    drv_timer,         \* seconds left of time.sleep(1) / wait(timeout=10)
    monitor_proc,      \* what start_monitoring returned ("None" or "proc")
    signals,           \* history: signals sent to the monitor's process group
    resource_data,     \* main: output_data['resource_monitoring'] (NoneRec: absent)
    \* ---- one call of a function of the driver or of a report generator ----
    op_fn,             \* the function called
    op_args,           \* its arguments and what its environment answers
    op_ret,            \* the value returned, or the exception raised
    op_pc              \* "called" or "returned"

suite_vars == <<test_configs, restart_per_test, enable_queries, suite_pc,
                test_idx, db_idx, results, current_service, svc, faults,
                invoked, prov, raised>>

calc_vars == <<call_fn, call_prev, call_curr, call_interval, call_ret, call_pc>>

mon_vars == <<procfs, self_interval, running, metrics, prev_cpu_stats, prev_disk_stats,
              prev_net_stats, mon_pc, sleep_left, pipe, output_file,
              save_count, term_len, drv_pc, drv_timer, monitor_proc, signals,
              resource_data>>

op_vars == <<op_fn, op_args, op_ret, op_pc>>

vars == <<suite_vars, calc_vars, mon_vars, op_vars>>

None == "None"

\* Python's None where the other values are dicts
NoneRec == [none |-> TRUE]

OpIdle == op_fn = "none" /\ op_args = NoneRec /\ op_ret = NoneRec /\ op_pc = "unused"

\* ------------------------------------------------------------------ bounds
MaxTests == 2     \* longest test_configs list explored
MaxFaults == 2    \* environment failures injected in one run
MaxTimeMs == 1    \* the best time (ms) a successful jar run reports
MaxTick == 2      \* largest /proc/stat counter value of a snapshot
MaxCount == 1     \* largest disk / network counter value, in units
PipeCapacity == 4 \* messages the unread stdout pipe of the monitor holds

\* ------------------------------------------------ program constants
NUM_DOCS == 10000
QUERY_LINKS == 10
START_SLEEP == 1     \* time.sleep(1) in start_monitoring
WAIT_TIMEOUT == 10   \* monitor_proc.wait(timeout=10) in stop_monitoring

SINGLE_ATTR_TESTS ==
    << [size |-> 10,   attrs |-> 1],
       [size |-> 200,  attrs |-> 1],
       [size |-> 1000, attrs |-> 1],
       [size |-> 2000, attrs |-> 1],
       [size |-> 4000, attrs |-> 1] >>

MULTI_ATTR_TESTS ==
    << [size |-> 10,   attrs |-> 10],
       [size |-> 200,  attrs |-> 10],
       [size |-> 1000, attrs |-> 50],
       [size |-> 2000, attrs |-> 100],
       [size |-> 4000, attrs |-> 200] >>

DATABASES ==
    << [name |-> "MongoDB (BSON)", key |-> "mongodb",
        flags |-> <<"-i", "-rd">>, service |-> "mongod", db_type |-> "mongodb"],
       [name |-> "PostgreSQL (JSON)", key |-> "postgresql_json",
        flags |-> <<"-p", "-i", "-rd">>, service |-> "postgresql-17", db_type |-> "postgresql"],
       [name |-> "PostgreSQL (JSONB)", key |-> "postgresql_jsonb",
        flags |-> <<"-p", "-j", "-i", "-rd">>, service |-> "postgresql-17", db_type |-> "postgresql"],
       [name |-> "Oracle JCT", key |-> "oracle_jct",
        flags |-> <<"-oj", "-i", "-mv", "-rd">>, service |-> "oracle-free-26ai", db_type |-> "oracle"] >>

Services == {DATABASES[i].service : i \in 1..Len(DATABASES)}
DbKeys == {DATABASES[i].key : i \in 1..Len(DATABASES)}

\* ------------------------------------------------------------ arithmetic
\* Python's round(): the nearest integer to n/d, ties to the even one.
RoundHalfEven(n, d) ==
    LET nn == IF d < 0 THEN -n ELSE n
        dd == IF d < 0 THEN -d ELSE d
        q  == nn \div dd
        r  == nn - q * dd
    IN  IF 2 * r < dd THEN q
        ELSE IF 2 * r > dd THEN q + 1
        ELSE IF q % 2 = 0 THEN q ELSE q + 1

\* ------------------------------------------------------- start_database
\* max_wait // wait_interval : the number of readiness probes
max_probes(db_type) == IF db_type = "oracle" THEN 120 \div 3 ELSE 30 \div 2

\* What probe i (0-based) of a start attempt observes under script s: the
\* first s.notready probes find the database not ready, probe s.notready
\* observes s.then, later probes find it not ready again.
ProbeOutcome(s, i) == IF i = s.notready THEN s.then ELSE "notready"

\* Outcomes one probe can have for a database type. Only the Oracle probe
\* runs sqlplus with timeout=10 (TimeoutExpired) and reads ORA-12954.
ProbeKinds(db_type) ==
    IF db_type = "oracle"
    THEN {"ready", "notready", "ORA-12954", "TimeoutExpired"}
    ELSE {"ready", "notready"}

\* The start attempts explored: systemctl start fails (rc 1); or it succeeds
\* and the database is never ready, or the first, the second or the last
\* probe observes something else than "not ready".
StartScripts(db_type) ==
    {[rc |-> 1, notready |-> 0, then |-> "notready"],
     [rc |-> 0, notready |-> 0, then |-> "notready"]}
    \cup [rc : {0}, notready : {0, 1, max_probes(db_type) - 1},
          then : ProbeKinds(db_type) \ {"notready"}]

RECURSIVE ProbeLoop(_, _, _)
ProbeLoop(db_type, s, i) ==
    IF i >= max_probes(db_type)
    THEN [ret |-> "False", probes |-> i]                 \* timeout waiting
    ELSE LET o == ProbeOutcome(s, i) IN
         IF o = "ready" THEN [ret |-> "True", probes |-> i + 1]
         ELSE IF db_type = "oracle" /\ o = "TimeoutExpired"
              THEN [ret |-> "TimeoutExpired", probes |-> i + 1]  \* propagates
         ELSE IF db_type = "oracle" /\ o = "ORA-12954" /\ i = 0
              THEN [ret |-> "False", probes |-> i + 1]
         ELSE ProbeLoop(db_type, s, i + 1)

\* start_database(service_name, db_type) under script s: "True", "False" or
\* the exception that leaves it, with the number of probes made.
start_database(db_type, s) ==
    IF s.rc # 0 THEN [ret |-> "False", probes |-> 0]
    ELSE ProbeLoop(db_type, s, 0)


\* ---------------------------------------- ResourceMonitor: CPU usage
CpuFields == {"user", "nice", "system", "idle", "iowait", "irq", "softirq", "steal"}

\* mutant: the idle counter is left out of the total
cpu_total_no_idle(stats) ==
    stats.user + stats.nice + stats.system
    + stats.iowait + stats.irq + stats.softirq + stats.steal

\* sum(stats.values())
cpu_total(stats) ==
    stats.user + stats.nice + stats.system + stats.idle
    + stats.iowait + stats.irq + stats.softirq + stats.steal

\* round(100.0 * part / total_delta, 2), in hundredths of a percent
Pct(part, total_delta) == RoundHalfEven(100 * 100 * part, total_delta)

\* mutant: the idle share is reported as the usage
usage_pct_idle(total_delta, idle_delta) == Pct(idle_delta, total_delta)

\* round(100.0 * (total_delta - idle_delta) / total_delta, 2)
usage_pct(total_delta, idle_delta) == Pct(total_delta - idle_delta, total_delta)

\* mutant: a total delta of zero gives a usage of zero instead of None
calculate_cpu_usage_zero_delta(prev, curr) ==
    IF prev = NoneRec \/ curr = NoneRec THEN NoneRec
    ELSE LET total_delta == cpu_total(curr) - cpu_total(prev)
             idle_delta == (curr.idle + curr.iowait) - (prev.idle + prev.iowait)
         IN  IF total_delta = 0
             THEN [total |-> 0, user |-> 0, system |-> 0, iowait |-> 0]
             ELSE [total  |-> usage_pct(total_delta, idle_delta),
                   user   |-> Pct(curr.user - prev.user, total_delta),
                   system |-> Pct(curr.system - prev.system, total_delta),
                   iowait |-> Pct(curr.iowait - prev.iowait, total_delta)]

\* _calculate_cpu_usage(prev, curr)
calculate_cpu_usage(prev, curr) ==
    IF prev = NoneRec \/ curr = NoneRec THEN NoneRec
    ELSE LET total_delta == cpu_total(curr) - cpu_total(prev)
             idle_delta == (curr.idle + curr.iowait) - (prev.idle + prev.iowait)
         IN  IF total_delta = 0 THEN NoneRec
             ELSE [total  |-> usage_pct(total_delta, idle_delta),
                   user   |-> Pct(curr.user - prev.user, total_delta),
                   system |-> Pct(curr.system - prev.system, total_delta),
                   iowait |-> Pct(curr.iowait - prev.iowait, total_delta)]

\* ------------------------------- ResourceMonitor: disk and network rates
\* mutant: the bytes are not divided by the interval
MbPerS_whole_interval(bytes, interval, scale) == RoundHalfEven(scale * bytes, 1024 * 1024)

\* round(bytes / (1024 * 1024 * interval), digits), in units of 10^-digits
MbPerS(bytes, interval, scale) == RoundHalfEven(scale * bytes, 1024 * 1024 * interval)

\* round(count / interval, 2), in hundredths
PerS(count, interval) == RoundHalfEven(100 * count, interval)

\* mutant: the deltas are taken the wrong way round (prev - curr)
disk_rates_swapped(p, c, interval) ==
    [read_mb_s  |-> MbPerS((p.sectors_read - c.sectors_read) * 512, interval, 100),
     write_mb_s |-> MbPerS((p.sectors_written - c.sectors_written) * 512, interval, 100),
     read_iops  |-> PerS(p.reads_completed - c.reads_completed, interval),
     write_iops |-> PerS(p.writes_completed - c.writes_completed, interval),
     total_iops |-> PerS((p.reads_completed - c.reads_completed)
                         + (p.writes_completed - c.writes_completed), interval)]

\* the dict _calculate_disk_usage builds for one device
disk_rates(p, c, interval) ==
    LET read_bytes == (c.sectors_read - p.sectors_read) * 512
        write_bytes == (c.sectors_written - p.sectors_written) * 512
        reads == c.reads_completed - p.reads_completed
        writes == c.writes_completed - p.writes_completed
    IN  [read_mb_s  |-> MbPerS(read_bytes, interval, 100),
         write_mb_s |-> MbPerS(write_bytes, interval, 100),
         read_iops  |-> PerS(reads, interval),
         write_iops |-> PerS(writes, interval),
         total_iops |-> PerS(reads + writes, interval)]

\* _calculate_disk_usage(prev, curr): "not prev or not curr" is true of an
\* empty dict too
calculate_disk_usage(prev, curr, interval) ==
    IF DOMAIN prev = {} \/ DOMAIN curr = {} THEN NoneRec
    ELSE [device \in DOMAIN curr \cap DOMAIN prev |->
             disk_rates(prev[device], curr[device], interval)]

\* the dict _calculate_network_usage builds for one interface
net_rates(p, c, interval) ==
    [rx_mb_s |-> MbPerS(c.rx_bytes - p.rx_bytes, interval, 1000),
     tx_mb_s |-> MbPerS(c.tx_bytes - p.tx_bytes, interval, 1000),
     rx_pps  |-> PerS(c.rx_packets - p.rx_packets, interval),
     tx_pps  |-> PerS(c.tx_packets - p.tx_packets, interval)]

\* "Only include active interfaces"
net_active(p, c) == c.rx_bytes - p.rx_bytes > 0 \/ c.tx_bytes - p.tx_bytes > 0

\* _calculate_network_usage(prev, curr)
calculate_network_usage(prev, curr, interval) ==
    IF DOMAIN prev = {} \/ DOMAIN curr = {} THEN NoneRec
    ELSE [interface \in {i \in DOMAIN curr \cap DOMAIN prev :
                             net_active(prev[i], curr[i])} |->
             net_rates(prev[interface], curr[interface], interval)]

\* ---------------------------------------- the calls explored (inputs)
\* /proc/stat snapshots: every counter from 0 to MaxTick
CpuSnapshots == [CpuFields -> 0..MaxTick]
CpuZero == [f \in CpuFields |-> 0]
CpuOnes == [f \in CpuFields |-> 1]

\* /proc/diskstats: sda with any counters (sectors in units of 1024, 512 KiB),
\* nvme0n1 with k reads and k writes of 10240 sectors (5 MiB) each; either may
\* be absent
SdaCounters ==
    {[reads_completed |-> r, sectors_read |-> 1024 * sr, writes_completed |-> w,
      sectors_written |-> 1024 * sw, io_time_ms |-> r + w] :
        r \in 0..MaxCount, sr \in 0..MaxCount, w \in 0..MaxCount, sw \in 0..MaxCount}
NvmeCounters ==
    {[reads_completed |-> k, sectors_read |-> 10240 * k, writes_completed |-> k,
      sectors_written |-> 10240 * k, io_time_ms |-> k] : k \in 0..MaxCount}
DiskSnapshots ==
    {a @@ b : a \in {<< >>} \cup {("sda" :> c) : c \in SdaCounters},
              b \in {<< >>} \cup {("nvme0n1" :> c) : c \in NvmeCounters}}

\* /proc/net/dev without lo: eth0 with any counters (bytes in units of
\* 512 KiB), eth1 with k packets of 1 MiB each way; either may be absent
Eth0Counters ==
    {[rx_bytes |-> 524288 * rb, rx_packets |-> rp, tx_bytes |-> 524288 * tb,
      tx_packets |-> tp] :
        rb \in 0..MaxCount, rp \in 0..MaxCount, tb \in 0..MaxCount, tp \in 0..MaxCount}
Eth1Counters ==
    {[rx_bytes |-> 1048576 * k, rx_packets |-> k, tx_bytes |-> 1048576 * k,
      tx_packets |-> k] : k \in {0, MaxCount}}
NetSnapshots ==
    {a @@ b : a \in {<< >>} \cup {("eth0" :> c) : c \in Eth0Counters},
              b \in {<< >>} \cup {("eth1" :> c) : c \in Eth1Counters}}

\* --interval: one second, or the default of five
IntervalChoices == {1, 5}

CalcInit ==
    /\ call_pc = "called"
    /\ call_ret = NoneRec
    /\ call_interval \in IntervalChoices
    /\ \/ /\ call_fn = "cpu"
          /\ call_prev \in {NoneRec, CpuZero, CpuOnes}
          /\ call_curr \in CpuSnapshots \cup {NoneRec}
          /\ call_interval = 5
       \/ /\ call_fn = "disk"
          /\ call_prev \in DiskSnapshots
          /\ call_curr \in DiskSnapshots
       \/ /\ call_fn = "net"
          /\ call_prev \in NetSnapshots
          /\ call_curr \in NetSnapshots

CalcIdle ==
    /\ call_fn = "none" /\ call_prev = NoneRec /\ call_curr = NoneRec
    /\ call_interval = 5 /\ call_ret = NoneRec /\ call_pc = "unused"

CalcCpu ==
    /\ call_pc = "called" /\ call_fn = "cpu"
    /\ call_ret' = calculate_cpu_usage(call_prev, call_curr)
    /\ call_pc' = "returned"
    /\ UNCHANGED <<call_fn, call_prev, call_curr, call_interval>>
    /\ UNCHANGED <<suite_vars, mon_vars, op_vars>>

CalcDisk ==
    /\ call_pc = "called" /\ call_fn = "disk"
    /\ call_ret' = calculate_disk_usage(call_prev, call_curr, call_interval)
    /\ call_pc' = "returned"
    /\ UNCHANGED <<call_fn, call_prev, call_curr, call_interval>>
    /\ UNCHANGED <<suite_vars, mon_vars, op_vars>>

CalcNet ==
    /\ call_pc = "called" /\ call_fn = "net"
    /\ call_ret' = calculate_network_usage(call_prev, call_curr, call_interval)
    /\ call_pc' = "returned"
    /\ UNCHANGED <<call_fn, call_prev, call_curr, call_interval>>
    /\ UNCHANGED <<suite_vars, mon_vars, op_vars>>

CalcNext == CalcCpu \/ CalcDisk \/ CalcNet

\* ------------------------------------------- ResourceMonitor as a process
\* Time is counted in seconds. The steps of the monitor between two sleeps
\* take no time. Timestamps are left out of the snapshots.

\* --monitor-interval (type=int, default 5)
MonitorIntervals == {1, 5, 12}

CpuDelta(user, system, idle, iowait) ==
    [f \in CpuFields |->
        CASE f = "user" -> user [] f = "system" -> system
          [] f = "idle" -> idle [] f = "iowait" -> iowait [] OTHER -> 0]

\* What the machine does between two reads of /proc: CPU ticks, reads
\* completed on sda (8 sectors each), writes completed on nvme0n1 (2048
\* sectors each), packets of 1 MiB received on eth0. Counters never go back.
Activities ==
    { [stat |-> CpuDelta(0, 0, 0, 0), reads |-> 0, writes |-> 0, rx |-> 0],
      [stat |-> CpuDelta(0, 0, 1, 0), reads |-> 0, writes |-> 0, rx |-> 0],
      [stat |-> CpuDelta(1, 0, 1, 1), reads |-> 1, writes |-> 2, rx |-> 1],
      [stat |-> CpuDelta(1, 1, 0, 0), reads |-> 4, writes |-> 0, rx |-> 0] }

Boot ==
    [stat |-> CpuOnes,
     diskstats |-> [d \in {"sda", "nvme0n1"} |->
                       [reads_completed |-> 0, sectors_read |-> 0,
                        writes_completed |-> 0, sectors_written |-> 0,
                        io_time_ms |-> 0]],
     net_dev |-> [i \in {"eth0"} |->
                     [rx_bytes |-> 0, rx_packets |-> 0, tx_bytes |-> 0,
                      tx_packets |-> 0]]]

\* the counters after activity a
advance(p, a) ==
    [stat |-> [f \in CpuFields |-> p.stat[f] + a.stat[f]],
     diskstats |->
        [d \in DOMAIN p.diskstats |->
            IF d = "sda"
            THEN [p.diskstats[d] EXCEPT !.reads_completed = @ + a.reads,
                                        !.sectors_read = @ + 8 * a.reads,
                                        !.io_time_ms = @ + a.reads]
            ELSE [p.diskstats[d] EXCEPT !.writes_completed = @ + a.writes,
                                        !.sectors_written = @ + 2048 * a.writes,
                                        !.io_time_ms = @ + a.writes]],
     net_dev |->
        [i \in DOMAIN p.net_dev |->
            [p.net_dev[i] EXCEPT !.rx_bytes = @ + 1048576 * a.rx,
                                 !.rx_packets = @ + a.rx]]]

RECURSIVE SeqSum(_)
SeqSum(s) == IF s = << >> THEN 0 ELSE s[1] + SeqSum(Tail(s))

\* mutant: the first element is taken for the maximum
SeqMaxFirst(s) == s[1]

\* max(list)
SeqMax(s) == CHOOSE x \in {s[i] : i \in 1..Len(s)} : \A i \in 1..Len(s) : s[i] <= x

\* min(list)
SeqMin(s) == CHOOSE x \in {s[i] : i \in 1..Len(s)} : \A i \in 1..Len(s) : x <= s[i]

\* round(sum(list) / len(list), 2) of hundredths: the nearest hundredth; when
\* the mean lies halfway, the binary double decides, so either neighbour
round_mean(s) ==
    LET n == Len(s)
        q == SeqSum(s) \div n
        r == SeqSum(s) - q * n
    IN  IF 2 * r < n THEN {q} ELSE IF 2 * r > n THEN {q + 1} ELSE {q, q + 1}

RECURSIVE sum_total_iops(_)
\* sum(d.get('total_iops', 0) for d in disk.values())
sum_total_iops(disk) ==
    IF DOMAIN disk = {} THEN 0
    ELSE LET d == CHOOSE x \in DOMAIN disk : TRUE
         IN  disk[d].total_iops
             + sum_total_iops([x \in DOMAIN disk \ {d} |-> disk[x]])

\* _calculate_summary(): the summaries it can return ({} is << >>)
calculate_summary(ms) ==
    IF ms = << >> THEN {<< >>}
    ELSE LET cpu_totals == [i \in 1..Len(ms) |-> ms[i].cpu.total]
             cpu_iowaits == [i \in 1..Len(ms) |-> ms[i].cpu.iowait]
             disk_iops == [i \in 1..Len(ms) |-> sum_total_iops(ms[i].disk)]
         IN  {[cpu |-> [avg |-> a, max |-> SeqMax(cpu_totals),
                        min |-> SeqMin(cpu_totals), avg_iowait |-> w,
                        max_iowait |-> SeqMax(cpu_iowaits)],
               disk |-> [avg_iops |-> d, max_iops |-> SeqMax(disk_iops),
                         min_iops |-> SeqMin(disk_iops)]] :
                 a \in round_mean(cpu_totals), w \in round_mean(cpu_iowaits),
                 d \in round_mean(disk_iops)}

\* what save_results() can write to the output file
output_data(ms, ival) ==
    {[monitoring_config |-> [interval_seconds |-> ival,
                             samples_collected |-> Len(ms)],
      metrics |-> ms,
      summary |-> sm] : sm \in calculate_summary(ms)}

\* "x or {}"
or_empty(x) == IF x = NoneRec THEN << >> ELSE x

\* print(): the text goes to the pipe unless the pipe is full
can_print == pipe < PipeCapacity

MonIdle ==
    /\ procfs = Boot /\ self_interval = 5 /\ running = TRUE /\ metrics = << >>
    /\ prev_cpu_stats = NoneRec /\ prev_disk_stats = << >> /\ prev_net_stats = << >>
    /\ mon_pc = "none" /\ sleep_left = 0 /\ pipe = 0 /\ output_file = NoneRec
    /\ save_count = 0 /\ term_len = << >> /\ resource_data = NoneRec
    /\ drv_pc = "unused" /\ drv_timer = 0 /\ monitor_proc = None /\ signals = << >>

MonInit ==
    /\ procfs = Boot /\ self_interval = 5 /\ running = TRUE /\ metrics = << >>
    /\ prev_cpu_stats = NoneRec /\ prev_disk_stats = << >> /\ prev_net_stats = << >>
    /\ mon_pc = "none" /\ sleep_left = 0 /\ pipe = 0 /\ output_file = NoneRec
    /\ save_count = 0 /\ term_len = << >> /\ resource_data = NoneRec
    /\ drv_pc = "init" /\ drv_timer = 0 /\ monitor_proc = None /\ signals = << >>

mon_frame == UNCHANGED <<suite_vars, calc_vars, op_vars, resource_data>>

\* the monitor is inside a print() that cannot write to the full pipe: in the
\* head of run(), in collect_snapshot, in save_results, in _signal_handler
BlockedPcs == {"blocked_run", "blocked_snapshot", "blocked_save", "blocked_handler"}

\* the monitor is at "while self.running"
at_loop_test == mon_pc = "loop" \/ (mon_pc = "sleep" /\ sleep_left = 0)

\* main(): ResourceMonitor(interval, output_file), then the head of run()
MonMain ==
    /\ mon_pc = "main"
    /\ running' = TRUE /\ metrics' = << >>
    /\ prev_cpu_stats' = NoneRec /\ prev_disk_stats' = << >> /\ prev_net_stats' = << >>
    /\ IF can_print THEN pipe' = pipe + 1 /\ mon_pc' = "loop"
                    ELSE pipe' = pipe /\ mon_pc' = "blocked_run"
    /\ UNCHANGED <<procfs, self_interval, sleep_left, output_file, save_count,
                   term_len, drv_pc, drv_timer, monitor_proc, signals>>
    /\ mon_frame

\* "while self.running" finds it True: collect_snapshot() begins
MonLoopTest ==
    /\ at_loop_test /\ running
    /\ mon_pc' = "collect"
    /\ UNCHANGED <<procfs, self_interval, running, metrics, prev_cpu_stats,
                   prev_disk_stats, prev_net_stats, sleep_left, pipe, output_file,
                   save_count, term_len, drv_pc, drv_timer, monitor_proc, signals>>
    /\ mon_frame

\* one turn of the loop of run(): collect_snapshot(), then time.sleep
MonCollect ==
    /\ mon_pc = "collect"
    /\ \E a \in Activities :
         LET curr == advance(procfs, a)
             cpu_usage == calculate_cpu_usage(prev_cpu_stats, curr.stat)
             disk_usage == calculate_disk_usage(prev_disk_stats, curr.diskstats, self_interval)
             net_usage == calculate_network_usage(prev_net_stats, curr.net_dev, self_interval)
             snapshot == [cpu |-> cpu_usage, disk |-> or_empty(disk_usage),
                          network |-> or_empty(net_usage)]
         IN  /\ procfs' = curr
             /\ prev_cpu_stats' = curr.stat
             /\ prev_disk_stats' = curr.diskstats
             /\ prev_net_stats' = curr.net_dev
             /\ IF cpu_usage # NoneRec
                THEN /\ metrics' = Append(metrics, snapshot)
                     /\ IF can_print
                        THEN pipe' = pipe + 1 /\ mon_pc' = "sleep" /\ sleep_left' = self_interval
                        ELSE pipe' = pipe /\ mon_pc' = "blocked_snapshot"
                             /\ sleep_left' = sleep_left
                ELSE /\ metrics' = metrics /\ pipe' = pipe
                     /\ mon_pc' = "sleep" /\ sleep_left' = self_interval
    /\ UNCHANGED <<self_interval, running, output_file, save_count, term_len,
                   drv_pc, drv_timer, monitor_proc, signals>>
    /\ mon_frame

\* save_results(): the file is written, then the closing text is printed
save_results ==
    /\ output_file' \in output_data(metrics, self_interval)
    /\ save_count' = save_count + 1
    /\ IF can_print THEN pipe' = pipe + 1 /\ mon_pc' = "exited"
                    ELSE pipe' = pipe /\ mon_pc' = "blocked_save"

\* the loop of run() ends because self.running is False: finally save_results
MonSave ==
    /\ at_loop_test /\ ~ running
    /\ save_results
    /\ UNCHANGED <<procfs, self_interval, running, metrics, prev_cpu_stats,
                   prev_disk_stats, prev_net_stats, sleep_left, term_len, drv_pc,
                   drv_timer, monitor_proc, signals>>
    /\ mon_frame

\* a read of /proc raises in collect_snapshot: finally save_results, and the
\* process ends with the exception
MonCollectRaises ==
    /\ mon_pc = "collect"
    /\ save_results
    /\ UNCHANGED <<procfs, self_interval, running, metrics, prev_cpu_stats,
                   prev_disk_stats, prev_net_stats, sleep_left, term_len, drv_pc,
                   drv_timer, monitor_proc, signals>>
    /\ mon_frame

\* mutant: the group is killed at once
stop_signal_kill(forced) == "SIGKILL"

\* the signal stop_monitoring sends: SIGTERM first, SIGKILL after the timeout
stop_signal(forced) == IF forced THEN "SIGKILL" ELSE "SIGTERM"

\* The monitor's process group receives sig. SIGTERM runs _signal_handler
\* (print, then self.running = False); an interrupted time.sleep goes on for
\* the time left. In a monitor blocked in print the handler may not run, may
\* run to its end (the blocked write is then retried), or its own print may
\* raise inside the interrupted print: from collect_snapshot the exception
\* reaches finally, save_results writes the file and blocks in its print;
\* from the head of run() and from save_results it ends the process.
deliver(sig) ==
    IF mon_pc \in {"none", "exited", "killed"}
    THEN UNCHANGED <<running, pipe, mon_pc, output_file, save_count, term_len>>
    ELSE IF sig = "SIGKILL"
    THEN mon_pc' = "killed" /\ UNCHANGED <<running, pipe, output_file, save_count, term_len>>
    ELSE /\ term_len' = IF term_len = << >> THEN <<Len(metrics)>> ELSE term_len
         /\ IF mon_pc \in BlockedPcs
            THEN /\ pipe' = pipe
                 /\ \/ UNCHANGED <<running, output_file, save_count, mon_pc>>
                    \/ running' = FALSE /\ UNCHANGED <<output_file, save_count, mon_pc>>
                    \/ /\ running' = running
                       /\ IF mon_pc \in {"blocked_snapshot", "blocked_handler"}
                          THEN /\ output_file' \in output_data(metrics, self_interval)
                               /\ save_count' = save_count + 1
                               /\ mon_pc' = "blocked_save"
                          ELSE /\ mon_pc' = "exited"
                               /\ UNCHANGED <<output_file, save_count>>
            ELSE /\ UNCHANGED <<output_file, save_count>>
                 /\ IF can_print
                    THEN pipe' = pipe + 1 /\ running' = FALSE /\ mon_pc' = mon_pc
                    ELSE pipe' = pipe /\ running' = running /\ mon_pc' = "blocked_handler"

\* start_monitoring() up to time.sleep(1)
StartMonitoring ==
    /\ drv_pc = "init"
    /\ \/ /\ drv_pc' = "benchmarks" /\ monitor_proc' = None
          /\ UNCHANGED <<self_interval, mon_pc, drv_timer>>
       \/ /\ self_interval' \in MonitorIntervals
          /\ mon_pc' = "main"
          /\ drv_pc' = "start_sleep" /\ drv_timer' = START_SLEEP
          /\ monitor_proc' = None
    /\ UNCHANGED <<procfs, running, metrics, prev_cpu_stats, prev_disk_stats,
                   prev_net_stats, sleep_left, pipe, output_file, save_count,
                   term_len, signals>>
    /\ mon_frame

\* start_monitoring() after time.sleep(1): proc.poll()
StartPoll ==
    /\ drv_pc = "start_sleep" /\ drv_timer = 0
    /\ monitor_proc' = IF mon_pc # "exited" THEN "proc" ELSE None
    /\ drv_pc' = "benchmarks"
    /\ UNCHANGED <<procfs, self_interval, running, metrics, prev_cpu_stats,
                   prev_disk_stats, prev_net_stats, mon_pc, sleep_left, pipe,
                   output_file, save_count, term_len, drv_timer, signals>>
    /\ mon_frame

\* stop_monitoring(monitor_proc) up to monitor_proc.wait(timeout=10)
StopMonitoring ==
    /\ drv_pc = "benchmarks"
    /\ IF monitor_proc = None
       THEN /\ drv_pc' = "returned"
            /\ UNCHANGED <<running, pipe, mon_pc, output_file, save_count,
                           term_len, drv_timer, signals>>
       ELSE /\ signals' = Append(signals, stop_signal(FALSE))
            /\ deliver(stop_signal(FALSE))
            /\ drv_pc' = "wait" /\ drv_timer' = WAIT_TIMEOUT
    /\ UNCHANGED <<procfs, self_interval, metrics, prev_cpu_stats, prev_disk_stats,
                   prev_net_stats, sleep_left, monitor_proc>>
    /\ mon_frame

\* monitor_proc.wait(timeout=10) returns: the monitor has exited
WaitReturns ==
    /\ drv_pc = "wait" /\ mon_pc \in {"exited", "killed"}
    /\ drv_pc' = "returned"
    /\ UNCHANGED <<procfs, self_interval, running, metrics, prev_cpu_stats,
                   prev_disk_stats, prev_net_stats, mon_pc, sleep_left, pipe,
                   output_file, save_count, term_len, drv_timer, monitor_proc,
                   signals>>
    /\ mon_frame

\* except subprocess.TimeoutExpired: killpg(SIGKILL), monitor_proc.wait()
WaitTimeout ==
    /\ drv_pc = "wait" /\ drv_timer = 0 /\ mon_pc \notin {"exited", "killed"}
    /\ signals' = Append(signals, stop_signal(TRUE))
    /\ deliver(stop_signal(TRUE))
    /\ drv_pc' = "returned"
    /\ UNCHANGED <<procfs, self_interval, metrics, prev_cpu_stats, prev_disk_stats,
                   prev_net_stats, sleep_left, drv_timer, monitor_proc>>
    /\ mon_frame

\* main() after stop_monitoring: the metrics file, if it exists, is read and
\* merged into the results as 'resource_monitoring'
MergeMetrics ==
    /\ drv_pc = "returned"
    /\ resource_data' = output_file
    /\ drv_pc' = "merged"
    /\ UNCHANGED <<procfs, self_interval, running, metrics, prev_cpu_stats,
                   prev_disk_stats, prev_net_stats, mon_pc, sleep_left, pipe,
                   output_file, save_count, term_len, drv_timer, monitor_proc,
                   signals>>
    /\ UNCHANGED <<suite_vars, calc_vars, op_vars>>

\* one second passes
Tick ==
    /\ mon_pc \notin {"main", "loop", "collect"} /\ ~ at_loop_test
    /\ drv_pc \in {"start_sleep", "wait"} => drv_timer > 0
    /\ drv_pc = "wait" => mon_pc \notin {"exited", "killed"}
    /\ mon_pc = "sleep" \/ drv_pc \in {"start_sleep", "wait"}
    /\ sleep_left' = IF mon_pc = "sleep" THEN sleep_left - 1 ELSE sleep_left
    /\ drv_timer' = IF drv_pc \in {"start_sleep", "wait"} THEN drv_timer - 1 ELSE drv_timer
    /\ UNCHANGED <<procfs, self_interval, running, metrics, prev_cpu_stats,
                   prev_disk_stats, prev_net_stats, mon_pc, pipe, output_file,
                   save_count, term_len, drv_pc, monitor_proc, signals>>
    /\ mon_frame

MonNext ==
    \/ StartMonitoring \/ StartPoll \/ StopMonitoring \/ WaitReturns
    \/ WaitTimeout \/ MergeMetrics \/ Tick
    \/ MonMain \/ MonLoopTest \/ MonCollect \/ MonSave \/ MonCollectRaises



\* -------------------------------------------------------- run_benchmark
\* One run of the benchmark jar as subprocess.run sees it: it completes with
\* a stdout, exceeds timeout=900 (TimeoutExpired) or cannot be run (OSError).
\* Of the stdout only the two lines the regexes look for are kept, each as a
\* sequence that is empty when the stdout has no such line; query_links is
\* << >> for Python's None:
\*   insert_line: "Best time to insert n documents with sB payload in a
\*                 attributes into indexed: t ms"
\*   query_line : "Best query time for ids ID's with links element link
\*                 arrays ...: t ms"
JarRuns(size, attrs, query_links) ==
    LET insert_lines ==
            {<< >>} \cup {<<l>> : l \in [n : {NUM_DOCS}, s : {size, size + 1},
                                         a : {attrs, attrs + 1}, t : {0, MaxTimeMs}]}
        query_lines ==
            IF query_links = << >> THEN {<< >>}
            ELSE {<< >>} \cup {<<l>> : l \in [ids : {NUM_DOCS}, links : {query_links[1]},
                                              t : {0, MaxTimeMs}]}
    IN  [kind : {"completed"}, insert_line : insert_lines, query_line : query_lines]
        \cup [kind : {"TimeoutExpired", "OSError"},
              insert_line : {<< >>}, query_line : {<< >>}]

\* re.search(pattern, stdout): the line names num_docs, size and attrs
PrimaryMatch(line, size, attrs, num_docs) ==
    line # << >> /\ line[1].n = num_docs /\ line[1].s = size /\ line[1].a = attrs

\* re.search(alt_pattern, stdout): any attribute count
AltMatch(line, size, num_docs) ==
    line # << >> /\ line[1].n = num_docs /\ line[1].s = size

QueryMatch(line, query_links) ==
    line # << >> /\ line[1].links = query_links[1]

FailRecord(err) == [success |-> FALSE, error |-> err]

\* mutant: the hundredths are cut off instead of rounded
Throughput_truncated(count, time_ms) == (count * 1000 * 100) \div time_ms

\* round(num_docs / (time_ms / 1000), 2), in hundredths of a document/s
Throughput(count, time_ms) == RoundHalfEven(count * 1000 * 100, time_ms)

\* mutant: the attribute count is stored as the size
success_response_swapped(size, attrs, num_docs, time_ms) ==
    [success |-> TRUE, size |-> attrs, attrs |-> attrs, num_docs |-> num_docs,
     time_ms |-> time_ms, throughput |-> Throughput(num_docs, time_ms)]

\* response after the insert time was parsed (lines 374-388, 396-400)
success_response(size, attrs, num_docs, time_ms) ==
    [success |-> TRUE, size |-> size, attrs |-> attrs, num_docs |-> num_docs,
     time_ms |-> time_ms, throughput |-> Throughput(num_docs, time_ms)]

\* The record run_benchmark returns for one jar run.
run_benchmark(size, attrs, num_docs, query_links, proc) ==
    IF proc.kind = "TimeoutExpired" THEN FailRecord("Timeout")
    ELSE IF proc.kind # "completed" THEN FailRecord(proc.kind)
    ELSE IF ~ (PrimaryMatch(proc.insert_line, size, attrs, num_docs)
               \/ AltMatch(proc.insert_line, size, num_docs))
    THEN FailRecord("Could not parse output")
    ELSE IF proc.insert_line[1].t = 0
    THEN FailRecord("float division by zero")     \* caught by except Exception
    ELSE LET response ==
                 success_response(size, attrs, num_docs, proc.insert_line[1].t)
         IN  IF query_links = << >> THEN response
             ELSE IF ~ QueryMatch(proc.query_line, query_links)
             THEN [query_time_ms |-> None,
                   query_error |-> "Could not parse query results"] @@ response
             ELSE IF proc.query_line[1].t = 0
             THEN FailRecord("float division by zero")
             ELSE [query_time_ms |-> proc.query_line[1].t,
                   query_throughput |-> Throughput(proc.query_line[1].ids, proc.query_line[1].t),
                   queries_executed |-> proc.query_line[1].ids,
                   query_links |-> query_links[1]] @@ response

\* A record of a run in which nothing went wrong.
CleanRecord(rec) == rec.success /\ "query_error" \notin DOMAIN rec

\* -------------------------------------------------------- run_test_suite
\* The lists main passes: the single-attribute tests or the multi-attribute
\* tests, cut to their first tests.
TestConfigChoices ==
    {SubSeq(SINGLE_ATTR_TESTS, 1, n) : n \in 0..MaxTests}
    \cup {SubSeq(MULTI_ATTR_TESTS, 1, n) : n \in 1..(MaxTests - 1)}

Slots == (1..Len(DATABASES)) \X (1..MaxTests)

SuiteInit ==
    /\ test_configs \in TestConfigChoices
    /\ restart_per_test \in BOOLEAN
    /\ enable_queries \in BOOLEAN
    /\ suite_pc = "entry"
    /\ test_idx = 1
    /\ db_idx = 1
    /\ results = << >>
    /\ current_service = None
    /\ svc = [s \in Services |-> "stopped"]
    /\ faults = 0
    /\ invoked = [p \in Slots |-> << >>]
    /\ prov = [k \in DbKeys |-> << >>]
    /\ raised = None

SuiteIdle ==
    /\ test_configs = << >> /\ restart_per_test = FALSE /\ enable_queries = FALSE
    /\ suite_pc = "unused" /\ test_idx = 1 /\ db_idx = 1 /\ results = << >>
    /\ current_service = None /\ svc = [s \in Services |-> "stopped"]
    /\ faults = 0 /\ invoked = [p \in Slots |-> << >>]
    /\ prov = [k \in DbKeys |-> << >>] /\ raised = None

db == DATABASES[db_idx]
test == test_configs[test_idx]
query_links == IF enable_queries THEN <<QUERY_LINKS>> ELSE << >>

\* results[key].append(rec), with the history of which test it belongs to
Append1(key, rec) ==
    /\ results' = [results EXCEPT ![key] = Append(@, rec)]
    /\ prov' = [prov EXCEPT ![key] = Append(@, test_idx)]

\* stop_database(service): sudo systemctl stop
stop_database(s, service) == [s EXCEPT ![service] = "stopped"]

\* sudo systemctl start, the first command of start_database
systemctl_start(s, service) == [s EXCEPT ![service] = "started"]

\* lines 462-473: results = {} and, in restart mode, one empty list per key
Enter ==
    /\ suite_pc = "entry"
    /\ IF restart_per_test
       THEN /\ results' = [k \in DbKeys |-> << >>]
            /\ suite_pc' = IF Len(test_configs) = 0 THEN "returned" ELSE "start"
       ELSE /\ results' = results
            /\ suite_pc' = "next_db"
    /\ UNCHANGED <<test_configs, restart_per_test, enable_queries, test_idx,
                   db_idx, current_service, svc, faults, invoked, prov, raised>>
    /\ UNCHANGED <<calc_vars, mon_vars, op_vars>>

\* restart mode: the next iteration of "for test ... for db ..."
RestartAdvance ==
    IF db_idx < Len(DATABASES)
    THEN db_idx' = db_idx + 1 /\ test_idx' = test_idx /\ suite_pc' = "start"
    ELSE IF test_idx < Len(test_configs)
    THEN db_idx' = 1 /\ test_idx' = test_idx + 1 /\ suite_pc' = "start"
    ELSE db_idx' = db_idx /\ test_idx' = test_idx /\ suite_pc' = "returned"

\* lines 481-485: start the database for this test
RestartStart ==
    /\ suite_pc = "start" /\ restart_per_test
    /\ \E s \in StartScripts(db.db_type) :
         LET r == start_database(db.db_type, s) IN
         /\ faults + (IF r.ret = "True" THEN 0 ELSE 1) <= MaxFaults
         /\ faults' = faults + (IF r.ret = "True" THEN 0 ELSE 1)
         /\ svc' = systemctl_start(svc, db.service)
         /\ IF r.ret = "True"
            THEN /\ suite_pc' = "bench"
                 /\ UNCHANGED <<results, prov, db_idx, test_idx, raised>>
            ELSE IF r.ret = "False"
            THEN /\ Append1(db.key, FailRecord("Database failed to start"))
                 /\ RestartAdvance
                 /\ raised' = raised
            ELSE /\ raised' = r.ret
                 /\ suite_pc' = "raised"
                 /\ UNCHANGED <<results, prov, db_idx, test_idx>>
    /\ UNCHANGED <<test_configs, restart_per_test, enable_queries,
                   current_service, invoked>>
    /\ UNCHANGED <<calc_vars, mon_vars, op_vars>>

\* mutant: a test that timed out is run again
AfterBenchPcRetry(result) ==
    IF ~ result.success /\ result.error = "Timeout" THEN "bench" ELSE "stop"

\* where run_test_suite goes after the record of a test is stored (line 515)
AfterBenchPc(result) == "stop"

\* lines 487-513: run the test and store its record
RestartBench ==
    /\ suite_pc = "bench" /\ restart_per_test
    /\ \E proc \in JarRuns(test.size, test.attrs, query_links) :
         LET result == run_benchmark(test.size, test.attrs, NUM_DOCS, query_links, proc)
             cost == IF CleanRecord(result) THEN 0 ELSE 1
         IN  /\ faults + cost <= MaxFaults
             /\ faults' = faults + cost
             /\ invoked' = [invoked EXCEPT ![<<db_idx, test_idx>>] = Append(@, proc.kind)]
             /\ Append1(db.key, result)
             /\ suite_pc' = AfterBenchPc(result)
    /\ UNCHANGED <<test_configs, restart_per_test, enable_queries, test_idx,
                   db_idx, current_service, svc, raised>>
    /\ UNCHANGED <<calc_vars, mon_vars, op_vars>>

\* lines 515-519: stop the database, clean up (disabled: a no-op)
RestartStop ==
    /\ suite_pc = "stop" /\ restart_per_test
    /\ svc' = stop_database(svc, db.service)
    /\ RestartAdvance
    /\ UNCHANGED <<test_configs, restart_per_test, enable_queries, results,
                   current_service, faults, invoked, prov, raised>>
    /\ UNCHANGED <<calc_vars, mon_vars, op_vars>>

\* original mode: the next iteration of "for db in DATABASES"
OrigNextDb ==
    IF db_idx < Len(DATABASES)
    THEN db_idx' = db_idx + 1 /\ test_idx' = 1 /\ suite_pc' = "next_db"
    ELSE db_idx' = db_idx /\ test_idx' = 1 /\ suite_pc' = "final_stop"

\* original mode: into "for test in test_configs" of the current database
OrigEnterTests ==
    IF Len(test_configs) = 0 THEN OrigNextDb
    ELSE db_idx' = db_idx /\ test_idx' = 1 /\ suite_pc' = "bench"

\* one failure record per test when the database did not start (line 553)
StartFailedRecords(configs) ==
    [j \in 1..Len(configs) |-> FailRecord("Database failed to start")]

\* lines 530-566: another service than the current one: stop, start
OrigStartDb ==
    /\ suite_pc = "next_db" /\ ~ restart_per_test
    /\ db.service # current_service
    /\ \E s \in StartScripts(db.db_type) :
         LET r == start_database(db.db_type, s)
             svc1 == IF current_service # None
                     THEN stop_database(svc, current_service) ELSE svc
         IN
         /\ faults + (IF r.ret = "True" THEN 0 ELSE 1) <= MaxFaults
         /\ faults' = faults + (IF r.ret = "True" THEN 0 ELSE 1)
         /\ svc' = systemctl_start(svc1, db.service)
         /\ IF r.ret = "True"
            THEN /\ current_service' = db.service
                 /\ results' = (db.key :> << >>) @@ results
                 /\ OrigEnterTests
                 /\ UNCHANGED <<prov, raised>>
            ELSE IF r.ret = "False"
            THEN /\ results' = (db.key :> StartFailedRecords(test_configs)) @@ results
                 /\ prov' = [prov EXCEPT ![db.key] = [j \in 1..Len(test_configs) |-> j]]
                 /\ OrigNextDb
                 /\ UNCHANGED <<current_service, raised>>
            ELSE /\ raised' = r.ret
                 /\ suite_pc' = "raised"
                 /\ UNCHANGED <<results, prov, db_idx, test_idx, current_service>>
    /\ UNCHANGED <<test_configs, restart_per_test, enable_queries, invoked>>
    /\ UNCHANGED <<calc_vars, mon_vars, op_vars>>

\* lines 530, 566: the service is the current one: no stop, no start
OrigSameService ==
    /\ suite_pc = "next_db" /\ ~ restart_per_test
    /\ db.service = current_service
    /\ results' = (db.key :> << >>) @@ results
    /\ OrigEnterTests
    /\ UNCHANGED <<test_configs, restart_per_test, enable_queries,
                   current_service, svc, faults, invoked, prov, raised>>
    /\ UNCHANGED <<calc_vars, mon_vars, op_vars>>

\* lines 568-594: run one test of the current database, store its record
OrigBench ==
    /\ suite_pc = "bench" /\ ~ restart_per_test
    /\ \E proc \in JarRuns(test.size, test.attrs, query_links) :
         LET result == run_benchmark(test.size, test.attrs, NUM_DOCS, query_links, proc)
             cost == IF CleanRecord(result) THEN 0 ELSE 1
         IN  /\ faults + cost <= MaxFaults
             /\ faults' = faults + cost
             /\ invoked' = [invoked EXCEPT ![<<db_idx, test_idx>>] = Append(@, proc.kind)]
             /\ Append1(db.key, result)
    /\ IF test_idx < Len(test_configs)
       THEN test_idx' = test_idx + 1 /\ db_idx' = db_idx /\ suite_pc' = "bench"
       ELSE OrigNextDb
    /\ UNCHANGED <<test_configs, restart_per_test, enable_queries,
                   current_service, svc, raised>>
    /\ UNCHANGED <<calc_vars, mon_vars, op_vars>>

\* lines 596-615: stop the last database and return
OrigFinalStop ==
    /\ suite_pc = "final_stop" /\ ~ restart_per_test
    /\ svc' = IF current_service # None
              THEN stop_database(svc, current_service) ELSE svc
    /\ suite_pc' = "returned"
    /\ UNCHANGED <<test_configs, restart_per_test, enable_queries, test_idx,
                   db_idx, results, current_service, faults, invoked, prov, raised>>
    /\ UNCHANGED <<calc_vars, mon_vars, op_vars>>

SuiteNext ==
    \/ Enter
    \/ RestartStart
    \/ RestartBench
    \/ RestartStop
    \/ OrigStartDb
    \/ OrigSameService
    \/ OrigBench
    \/ OrigFinalStop

Init == SuiteInit /\ CalcIdle /\ MonIdle /\ OpIdle
Next == SuiteNext
Spec == Init /\ [][Next]_vars

\* ------------------------------------------------- claims: run_test_suite
KeyOf(i) == DATABASES[i].key

\* The returned dict has, for every database key, one record per entry of
\* test_configs, in test_configs order, every failed one with an error.
ReturnedShape ==
    \A i \in 1..Len(DATABASES) :
        /\ KeyOf(i) \in DOMAIN results
        /\ Len(results[KeyOf(i)]) = Len(test_configs)
        /\ \A j \in 1..Len(test_configs) :
              /\ prov[KeyOf(i)][j] = j
              /\ (~ results[KeyOf(i)][j].success
                    => "error" \in DOMAIN results[KeyOf(i)][j])

\* C1: run_test_suite retains failures instead of aborting the batch: every
\* run that has ended, after any combination of database start failures,
\* benchmark errors, timeouts and unparseable outputs, has returned a dict
\* holding for every database key exactly one record per entry of
\* test_configs, in order, each failed record with success=False and an error.
C1_FailuresRetainedNotAborting ==
    suite_pc \in {"returned", "raised"}
        => (suite_pc = "returned" /\ ReturnedShape)

\* C2: no exception raised by a readiness probe (the 10-second timeout of the
\* Oracle sqlplus probes included) or by the benchmark subprocess propagates
\* out of run_test_suite: the affected test gets a failure record and the
\* suite goes on.
C2_NoExceptionLeavesSuite == raised = None

\* C9: there is no retry: each (database, test) pair causes at most one
\* invocation of the benchmark jar, and a test whose subprocess timed out is
\* recorded as a failure with error "Timeout" and never run again.
C9_NoRetry ==
    \A p \in Slots :
        /\ Len(invoked[p]) <= 1
        /\ (invoked[p] = <<"TimeoutExpired">>
              => /\ KeyOf(p[1]) \in DOMAIN results
                 /\ \E j \in 1..Len(results[KeyOf(p[1])]) :
                       /\ prov[KeyOf(p[1])][j] = p[2]
                       /\ results[KeyOf(p[1])][j] = FailRecord("Timeout"))

\* a test has timed out and the suite has gone on to return
C9_Witness ==
    /\ suite_pc = "returned"
    /\ \E p \in Slots : invoked[p] = <<"TimeoutExpired">>
    /\ \E p \in Slots : invoked[p] = <<"completed">>

\* C10 as claimed: every stored record, success or failure, carries the size
\* and attrs of the test configuration it belongs to.
C10_EveryRecordKeyed ==
    \A k \in DOMAIN results : \A j \in 1..Len(results[k]) :
        /\ "size" \in DOMAIN results[k][j]
        /\ "attrs" \in DOMAIN results[k][j]
        /\ results[k][j].size = test_configs[prov[k][j]].size
        /\ results[k][j].attrs = test_configs[prov[k][j]].attrs

\* C10 amended: every success record carries the size and attrs of its test;
\* a failure record carries only success and error and is identified by its
\* position in the list alone.
C10_SuccessRecordsKeyed ==
    \A k \in DOMAIN results : \A j \in 1..Len(results[k]) :
        IF results[k][j].success
        THEN /\ results[k][j].size = test_configs[prov[k][j]].size
             /\ results[k][j].attrs = test_configs[prov[k][j]].attrs
        ELSE DOMAIN results[k][j] = {"success", "error"}

\* a returned dict with a success record and a failure record
C10_Witness ==
    /\ suite_pc = "returned"
    /\ \E k \in DOMAIN results : \E j \in 1..Len(results[k]) : results[k][j].success
    /\ \E k \in DOMAIN results : \E j \in 1..Len(results[k]) : ~ results[k][j].success


\* ------------------------------------------- claims: rate calculations
InitCalc == CalcInit /\ SuiteIdle /\ MonIdle /\ OpIdle
SpecCalc == InitCalc /\ [][CalcNext]_vars

CpuReturned == call_pc = "returned" /\ call_fn = "cpu" /\ call_ret # NoneRec

\* consecutive snapshots of /proc/stat: no counter has gone back
CpuConsecutive ==
    /\ call_prev # NoneRec /\ call_curr # NoneRec
    /\ \A f \in CpuFields : call_prev[f] <= call_curr[f]

\* C3 as claimed: for consecutive snapshots for which a result is returned,
\* user + system + iowait <= total.
C3_ComponentsWithinTotal ==
    (CpuReturned /\ CpuConsecutive)
        => call_ret.user + call_ret.system + call_ret.iowait <= call_ret.total

\* C3 amended: iowait is counted as idle time and is no part of total; for
\* consecutive snapshots for which a result is returned, user + system <=
\* total up to the rounding of the three values (0.01).
C3_UserSystemWithinTotal ==
    (CpuReturned /\ CpuConsecutive)
        => call_ret.user + call_ret.system <= call_ret.total + 1

\* a result with user, system and iowait time whose rounded user + system
\* exceeds the rounded total by 0.01
C3_Witness ==
    /\ CpuReturned /\ CpuConsecutive
    /\ call_ret.iowait > 0
    /\ call_ret.user + call_ret.system = call_ret.total + 1

\* C4: for consecutive snapshots with non-decreasing counters and a non-zero
\* total delta, each of total, user, system and iowait lies in [0, 100].
C4_PercentagesInRange ==
    (CpuReturned /\ CpuConsecutive)
        => \A k \in {"total", "user", "system", "iowait"} :
               0 <= call_ret[k] /\ call_ret[k] <= 100 * 100

\* a fully busy interval (100 %) next to one with iowait only (0 % usage)
C4_Witness ==
    /\ CpuReturned /\ CpuConsecutive
    /\ call_ret.total = 100 * 100
    /\ call_ret.user > 0 /\ call_ret.system > 0

RatesReturned(fn) == call_pc = "returned" /\ call_fn = fn /\ call_ret # NoneRec

\* no counter of a device or interface present in both snapshots went back
NoWraparound ==
    \A d \in DOMAIN call_prev \cap DOMAIN call_curr :
        \A f \in DOMAIN call_curr[d] : call_prev[d][f] <= call_curr[d][f]

\* C5: without counter wraparound every rate returned by
\* _calculate_disk_usage and by _calculate_network_usage is >= 0, for every
\* device and interface reported.
C5_RatesNonNegative ==
    ((RatesReturned("disk") \/ RatesReturned("net")) /\ NoWraparound)
        => \A d \in DOMAIN call_ret : \A k \in DOMAIN call_ret[d] : call_ret[d][k] >= 0

\* two devices reported, one of them with a positive write rate
C5_Witness ==
    /\ RatesReturned("disk") /\ NoWraparound
    /\ DOMAIN call_ret = {"sda", "nvme0n1"}
    /\ call_ret["sda"].write_mb_s > 0 /\ call_ret["nvme0n1"].total_iops > 0

InitMonitor == MonInit /\ SuiteIdle /\ CalcIdle /\ OpIdle
SpecMonitor == InitMonitor /\ [][MonNext]_vars

\* the series recorded in the file save_results wrote
saved_totals ==
    [i \in 1..Len(output_file.metrics) |-> output_file.metrics[i].cpu.total]
saved_iops ==
    [i \in 1..Len(output_file.metrics) |-> sum_total_iops(output_file.metrics[i].disk)]

Saved == output_file # NoneRec /\ output_file.metrics # << >>

IsMaxOf(x, s) == (\E i \in 1..Len(s) : s[i] = x) /\ (\A i \in 1..Len(s) : s[i] <= x)
IsMinOf(x, s) == (\E i \in 1..Len(s) : s[i] = x) /\ (\A i \in 1..Len(s) : x <= s[i])

\* x is the mean of s rounded to the nearest hundredth
IsRoundedMeanOf(x, s) ==
    LET e == x * Len(s) - SeqSum(s) IN -Len(s) <= 2 * e /\ 2 * e <= Len(s)

\* C6 as claimed: the summary equals direct arithmetic over the recorded
\* series: cpu avg/max/min are the mean, maximum and minimum of the recorded
\* CPU totals, disk avg_iops/max_iops/min_iops those of the per-sample sum of
\* total_iops, and min <= avg <= max in both groups.
C6_SummaryEqualsDirectArithmetic ==
    Saved =>
        LET sm == output_file.summary IN
        /\ sm.cpu.avg * Len(saved_totals) = SeqSum(saved_totals)
        /\ IsMaxOf(sm.cpu.max, saved_totals) /\ IsMinOf(sm.cpu.min, saved_totals)
        /\ sm.disk.avg_iops * Len(saved_iops) = SeqSum(saved_iops)
        /\ IsMaxOf(sm.disk.max_iops, saved_iops) /\ IsMinOf(sm.disk.min_iops, saved_iops)
        /\ sm.cpu.min <= sm.cpu.avg /\ sm.cpu.avg <= sm.cpu.max
        /\ sm.disk.min_iops <= sm.disk.avg_iops /\ sm.disk.avg_iops <= sm.disk.max_iops

\* C6 amended: max and min are the maximum and minimum of the recorded
\* series, avg and avg_iops are the mean rounded to two decimals (within
\* 0.005 of the mean), and min <= avg <= max in both groups.
C6_SummaryIsRoundedArithmetic ==
    Saved =>
        LET sm == output_file.summary IN
        /\ IsRoundedMeanOf(sm.cpu.avg, saved_totals)
        /\ IsMaxOf(sm.cpu.max, saved_totals) /\ IsMinOf(sm.cpu.min, saved_totals)
        /\ IsRoundedMeanOf(sm.disk.avg_iops, saved_iops)
        /\ IsMaxOf(sm.disk.max_iops, saved_iops) /\ IsMinOf(sm.disk.min_iops, saved_iops)
        /\ sm.cpu.min <= sm.cpu.avg /\ sm.cpu.avg <= sm.cpu.max
        /\ sm.disk.min_iops <= sm.disk.avg_iops /\ sm.disk.avg_iops <= sm.disk.max_iops

\* three samples saved whose mean CPU total is no whole number of hundredths
\* and whose largest total is not the first
C6_Witness ==
    /\ Saved /\ Len(output_file.metrics) = 3
    /\ output_file.summary.cpu.avg * 3 # SeqSum(saved_totals)
    /\ output_file.summary.cpu.max > saved_totals[1]
    /\ output_file.summary.disk.max_iops > output_file.summary.disk.min_iops

\* C7 as claimed: a monitor that was started and not signalled never blocks
\* waiting on the driver, although the driver never reads the pipes it
\* attached, so its next snapshot is always taken.
C7_MonitorNeverBlocksOnDriver ==
    (mon_pc # "none" /\ signals = << >>) => mon_pc \notin BlockedPcs

\* C8: stop_monitoring on a started monitor sends SIGTERM first and SIGKILL
\* only when the 10-second wait ran out with the monitor still alive; when
\* it returns the monitor has terminated; with monitor_proc None it sends
\* nothing.
C8_TermThenKillAfterTimeout ==
    /\ signals \in {<< >>, <<"SIGTERM">>, <<"SIGTERM", "SIGKILL">>}
    /\ Len(signals) = 2 => (drv_timer = 0 /\ mon_pc = "killed")
    /\ mon_pc = "killed" => Len(signals) = 2
    /\ (drv_pc = "returned" /\ monitor_proc # None) => mon_pc \in {"exited", "killed"}
    /\ monitor_proc = None => signals = << >>

\* stop_monitoring returned through the forced path
C8_Witness ==
    /\ drv_pc = "returned" /\ monitor_proc # None
    /\ signals = <<"SIGTERM", "SIGKILL">> /\ mon_pc = "killed"



\* ------------------------------------------- claims: single function calls
\* One call of a function: its arguments and the answers of its environment
\* are drawn at the start, the action computes what it returns.

\* wait_interval of start_database
wait_interval(db_type) == IF db_type = "oracle" THEN 3 ELSE 2

\* The start attempts of one call: systemctl start fails; or it succeeds and
\* the database is never ready, or any one probe observes something else
\* than "not ready".
StartCalls ==
    UNION {
        [db_type : {t},
         script : {[rc |-> 1, notready |-> 0, then |-> "notready"],
                   [rc |-> 0, notready |-> 0, then |-> "notready"]}
                  \cup [rc : {0}, notready : 0..(max_probes(t) - 1),
                        then : ProbeKinds(t) \ {"notready"}]]
        : t \in {DATABASES[i].db_type : i \in 1..Len(DATABASES)} }

\* ---- report generators
\* what a JSON input file is when a generator opens it
FileStates == {"missing", "invalid", "data"}

\* generate_benchmark_report.load_json(filepath): both errors are caught
load_json(f) ==
    IF f = "data" THEN [value |-> "data", raised |-> None]
    ELSE [value |-> None, raised |-> None]

\* generate_report.load_data / generate_html_report.load_results: open() and
\* json.load() with no handler
load_data(f) ==
    IF f = "missing" THEN [value |-> None, raised |-> "FileNotFoundError"]
    ELSE IF f = "invalid" THEN [value |-> None, raised |-> "JSONDecodeError"]
    ELSE [value |-> "data", raised |-> None]

\* generate_results_table / generate_resource_summary_table for one input
section(value) == IF value = None THEN "No data available" ELSE "table"

\* generate_benchmark_report.main(): f.scp tells whether both scp commands
\* succeeded; without local results no report is written (return 1)
generate_benchmark_report_main(f) ==
    LET local_results == load_json(f.results).value
        local_metrics == load_json(f.metrics).value
        remote_results == IF f.scp THEN load_json(f.remote_results).value ELSE None
    IN  IF local_results = None
        THEN [raised |-> None, exit |-> 1, report |-> NoneRec]
        ELSE [raised |-> None, exit |-> 0,
              report |-> [results |-> section(local_results),
                          metrics |-> section(local_metrics),
                          remote_results |-> section(remote_results)]]

\* generate_report.main() and generate_html_report.main(): one input file
generate_report_main(f) ==
    LET data == load_data(f.results)
    IN  IF data.raised # None
        THEN [raised |-> data.raised, exit |-> 1, report |-> NoneRec]
        ELSE [raised |-> None, exit |-> 0,
              report |-> [results |-> section(data.value)]]

\* the runs of the report generators explored
ReportCalls ==
    [generator : {"generate_benchmark_report"}, results : FileStates,
     metrics : FileStates, scp : BOOLEAN, remote_results : FileStates]
    \cup [generator : {"generate_report", "generate_html_report"},
          results : FileStates]

\* ---- main() of run_article_benchmarks.py
LARGE_SINGLE_ATTR_TESTS ==
    << [size |-> 10000,   attrs |-> 1],
       [size |-> 100000,  attrs |-> 1],
       [size |-> 1000000, attrs |-> 1] >>

LARGE_MULTI_ATTR_TESTS ==
    << [size |-> 10000,   attrs |-> 200],
       [size |-> 100000,  attrs |-> 500],
       [size |-> 1000000, attrs |-> 1000] >>

\* a Python str is a sequence of characters; the flag words the program uses
Spell(word) ==
    CASE word = "-i"       -> <<"-", "i">>
      [] word = "-mv"      -> <<"-", "m", "v">>
      [] word = "-p"       -> <<"-", "p">>
      [] word = "-j"       -> <<"-", "j">>
      [] word = "-oj"      -> <<"-", "o", "j">>
      [] word = "-rd"      -> <<"-", "r", "d">>
      [] word = "-nostats" -> <<"-", "n", "o", "s", "t", "a", "t", "s">>

\* " ".join(words)
RECURSIVE join(_)
join(words) ==
    IF words = << >> THEN << >>
    ELSE IF Len(words) = 1 THEN Spell(words[1])
    ELSE Spell(words[1]) \o <<" ">> \o join(Tail(words))

\* s.replace(old, ''): every non-overlapping occurrence, scanning from the left
RECURSIVE str_replace(_, _)
str_replace(s, old) ==
    IF Len(s) < Len(old) THEN s
    ELSE IF SubSeq(s, 1, Len(old)) = old
    THEN str_replace(SubSeq(s, Len(old) + 1, Len(s)), old)
    ELSE <<s[1]>> \o str_replace(Tail(s), old)

\* the words of a command line: split at blanks, empty words dropped
RECURSIVE split_from(_, _, _)
split_from(s, word, acc) ==
    LET done == IF word = << >> THEN acc ELSE Append(acc, word)
    IN  IF s = << >> THEN done
        ELSE IF s[1] = " " THEN split_from(Tail(s), << >>, done)
        ELSE split_from(Tail(s), Append(word, s[1]), acc)

split(s) == split_from(s, << >>, << >>)

\* only the first of the four replacements
remove_index_flags_first_only(flags) ==
    str_replace(flags, <<" ">> \o Spell("-i"))

\* db['flags'].replace(' -i', '').replace('-i ', '').replace(' -mv', '')
\*             .replace('-mv ', '')
remove_index_flags(flags) ==
    str_replace(
        str_replace(
            str_replace(
                str_replace(flags, <<" ">> \o Spell("-i")),
                Spell("-i") \o <<" ">>),
            <<" ">> \o Spell("-mv")),
        Spell("-mv") \o <<" ">>)

\* the module-level DATABASES with flags as the str the program holds
DATABASES_global ==
    [i \in 1..Len(DATABASES) |->
        [key |-> DATABASES[i].key, db_type |-> DATABASES[i].db_type,
         flags |-> join(DATABASES[i].flags)]]

\* for db in DATABASES: db['flags'] = db['flags'].replace(...)...
strip_index_flags(dbs) ==
    [i \in 1..Len(dbs) |-> [dbs[i] EXCEPT !.flags = remove_index_flags(@)]]

\* main: the --mongodb / --oracle / --postgresql filter
filter_databases(dbs, types) ==
    IF types = {} THEN dbs
    ELSE SelectSeq(dbs, LAMBDA d : d.db_type \in types)

\* main: --nostats appends ' -nostats' to the Oracle databases
add_nostats(dbs) ==
    [i \in 1..Len(dbs) |->
        IF dbs[i].db_type = "oracle"
        THEN [dbs[i] EXCEPT !.flags = @ \o <<" ">> \o Spell("-nostats")]
        ELSE dbs[i]]

\* one call run_test_suite(test_configs, test_type, enable_queries=...,
\* restart_per_test=...), with the value of the global DATABASES it reads
suite_call(tests, test_type, queries, restart, dbs) ==
    [test_configs |-> tests, test_type |-> test_type, enable_queries |-> queries,
     restart_per_test |-> restart, databases |-> dbs]

\* start_monitoring(...): the Popen object, or None when the script is
\* missing or the process has ended after a second
start_monitoring(args) ==
    IF args.monitor /\ args.monitor_starts THEN "proc" ELSE None

\* the run_test_suite calls entered when call number raise_at raises
\* (0: none raises)
calls_made(calls, raise_at) ==
    IF raise_at \in 1..Len(calls) THEN SubSeq(calls, 1, raise_at) ELSE calls

\* the exception that leaves the run_test_suite calls, if any
suite_raised(calls, raise_at) ==
    IF raise_at \in 1..Len(calls) THEN "TimeoutExpired" ELSE None

\* run_full_comparison_suite(args), given the globals main left: the
\* run_test_suite calls it makes, in order, its local run_index_first, the
\* monitor it starts (695-700) and the stop_monitoring calls it makes (752-754)
run_full_comparison_suite(args, single, multi, dbs) ==
    LET single_tests == IF args.large_items
                        THEN single \o LARGE_SINGLE_ATTR_TESTS ELSE single
        multi_tests == IF args.large_items
                       THEN multi \o LARGE_MULTI_ATTR_TESTS ELSE multi
        original_databases == dbs
        run_index_first == IF args.randomize_order THEN args.choice ELSE FALSE
        noindex == strip_index_flags(dbs)
        proc == start_monitoring(args)
        calls ==
           << suite_call(single_tests, "SINGLE ATTRIBUTE (NO INDEX)",
                         FALSE, TRUE, noindex),
              suite_call(multi_tests, "MULTI ATTRIBUTE (NO INDEX)",
                         FALSE, TRUE, noindex),
              suite_call(single_tests, "SINGLE ATTRIBUTE (WITH INDEX)",
                         TRUE, TRUE, original_databases),
              suite_call(multi_tests, "MULTI ATTRIBUTE (WITH INDEX)",
                         TRUE, TRUE, original_databases) >>
        exc == suite_raised(calls, args.raise_at)
    IN  [run_index_first |-> run_index_first,
         suites |-> calls_made(calls, args.raise_at),
         raised |-> exc,
         monitor_proc |-> proc,
         \* no try: the statement is reached only when nothing was raised
         stop_monitoring_calls |->
             IF exc = None /\ proc # None THEN 1 ELSE 0]

\* main(): what the service and monitor calls do is modelled by Spec and
\* SpecMonitor; here, the run_test_suite calls made, the globals they read,
\* the monitor started (948-953) and the stop_monitoring calls (975-978)
main(args) ==
    LET single == IF args.large_items
                  THEN SINGLE_ATTR_TESTS \o LARGE_SINGLE_ATTR_TESTS
                  ELSE SINGLE_ATTR_TESTS
        multi == IF args.large_items
                 THEN MULTI_ATTR_TESTS \o LARGE_MULTI_ATTR_TESTS
                 ELSE MULTI_ATTR_TESTS
        enabled == filter_databases(DATABASES_global, args.db_types)
        dbs == IF args.nostats THEN add_nostats(enabled) ELSE enabled
        queries == args.queries /\ ~ args.no_index
        final == IF args.no_index THEN strip_index_flags(dbs) ELSE dbs
        proc == start_monitoring(args)
        calls == << suite_call(single, "SINGLE", queries, FALSE, final),
                    suite_call(multi, "MULTI", queries, FALSE, final) >>
    IN  IF args.full_comparison
        THEN run_full_comparison_suite(args, single, multi, dbs)
        ELSE [run_index_first |-> FALSE,
              suites |-> calls_made(calls, args.raise_at),
              raised |-> suite_raised(calls, args.raise_at),
              monitor_proc |-> proc,
              \* finally: reached with or without an exception
              stop_monitoring_calls |-> IF proc # None THEN 1 ELSE 0]

\* the command line of the jar that run_test_suite has run_benchmark build
\* for one test on one database: the words of db['flags'], the test, and
\* -q only if query_links is not None
jar_cmd(suite, d, t) ==
    [flags |-> split(d.flags), size |-> t.size, attrs |-> t.attrs,
     q |-> IF suite.enable_queries THEN <<QUERY_LINKS>> ELSE << >>]

\* every jar command line of one run_test_suite call in which each database
\* starts and each jar completes
jar_cmds(suite) ==
    {jar_cmd(suite, suite.databases[i], suite.test_configs[j]) :
        i \in 1..Len(suite.databases), j \in 1..Len(suite.test_configs)}

\* the command lines explored; random.choice is args.choice, whether the
\* monitor process is up after start_monitoring is args.monitor_starts, and
\* the run_test_suite call that raises is args.raise_at
MainCalls ==
    [full_comparison : BOOLEAN, randomize_order : BOOLEAN, choice : BOOLEAN,
     no_index : BOOLEAN, queries : BOOLEAN, nostats : BOOLEAN,
     large_items : BOOLEAN,
     db_types : {{}, {"oracle"}, {"mongodb", "postgresql"}},
     monitor : BOOLEAN, monitor_starts : BOOLEAN, raise_at : 0..4]

\* ---- ServerProfiler (profile_server.py) and its use by run_benchmark
\* ServerProfiler.__init__: the fields it assigns. It assigns no
\* perf_process; "unset" stands for the attribute that does not exist.
ServerProfiler(database, e) ==
    IF ~ e.flamegraph_found
    THEN [raised |-> "RuntimeError", obj |-> NoneRec]
    ELSE [raised |-> None,
          obj |-> [database |-> database, perf_pid |-> None,
                   perf_data_file |-> None, perf_process |-> "unset"]]

\* find_server_pid: pgrep for mongodb, a marker for oracle, ValueError else
find_server_pid(obj, e) ==
    IF obj.database = "mongodb"
    THEN [raised |-> None, pid |-> IF e.pgrep_finds THEN "pid" ELSE None]
    ELSE IF obj.database = "oracle"
    THEN [raised |-> None, pid |-> "PROFILE_BY_USER"]
    ELSE [raised |-> "ValueError", pid |-> None]

\* start_profiling: what it returns, the object afterwards, and whether a
\* perf process is recording when it ends
start_profiling(obj, e) ==
    LET found == find_server_pid(obj, e)
        named == [obj EXCEPT !.perf_data_file = "perf.data"]
        launched == [named EXCEPT !.perf_process = "proc", !.perf_pid = "pid"]
    IN  IF found.raised # None
        THEN [raised |-> found.raised, ret |-> None, obj |-> obj, recording |-> FALSE]
        ELSE IF found.pid = None
        THEN [raised |-> None, ret |-> "False", obj |-> obj, recording |-> FALSE]
        ELSE IF e.popen = "raises"
        THEN [raised |-> None, ret |-> "False", obj |-> named, recording |-> FALSE]
        ELSE IF e.popen = "exits"
        THEN [raised |-> None, ret |-> "False", obj |-> launched, recording |-> FALSE]
        ELSE [raised |-> None, ret |-> "True", obj |-> launched, recording |-> TRUE]

\* stop_profiling: reading self.perf_process raises AttributeError when the
\* attribute was never assigned; otherwise SIGINT, wait(timeout=10), SIGKILL
\* after a timeout, return None on any other error; then generate_flamegraph
stop_profiling(obj, e, recording) ==
    IF obj.perf_process = "unset"
    THEN [raised |-> "AttributeError", ret |-> None, recording |-> recording]
    ELSE IF obj.perf_process = None
    THEN [raised |-> None, ret |-> None, recording |-> recording]
    ELSE IF e.stop = "error"
    THEN [raised |-> None, ret |-> None, recording |-> recording]
    ELSE [raised |-> None, ret |-> IF e.svg THEN "svg" ELSE None, recording |-> FALSE]

\* run_benchmark lines 320-332: the profiler it keeps (<< >>: None), and the
\* sessions started (start_profiling returned True)
profiler_for_benchmark(e) ==
    IF ~ (e.server_profile /\ e.SERVER_PROFILER_AVAILABLE)
    THEN [server_profiler |-> << >>, started |-> 0, recording |-> FALSE]
    ELSE LET made == ServerProfiler(e.db_type, e)
         IN  IF made.raised # None
             THEN [server_profiler |-> << >>, started |-> 0, recording |-> FALSE]
             ELSE LET s == start_profiling(made.obj, e)
                  IN  IF s.raised # None \/ s.ret # "True"
                      THEN [server_profiler |-> << >>, started |-> 0,
                            recording |-> s.recording]
                      ELSE [server_profiler |-> <<s.obj>>, started |-> 1,
                            recording |-> s.recording]

\* run_benchmark as a whole: profiler start (320-332), the command line
\* (334-358, where os.makedirs runs before the try when flame_graph is set
\* and async-profiler exists: e.flame_graph), the jar and its
\* parsing (360-433), finally stop_profiling (434-442)
run_benchmark_call(e) ==
    LET p == profiler_for_benchmark(e)
        stopped == IF p.server_profiler = << >>
                   THEN [raised |-> None, ret |-> None, recording |-> p.recording]
                   ELSE stop_profiling(p.server_profiler[1], e, p.recording)
    IN  IF e.flame_graph /\ e.makedirs_raises
        THEN [raised |-> "OSError", result |-> NoneRec, started |-> p.started,
              stop_calls |-> 0, recording |-> p.recording]
        ELSE [raised |-> None,
              result |-> run_benchmark(e.size, e.attrs, NUM_DOCS, e.query_links, e.proc),
              started |-> p.started,
              stop_calls |-> IF p.server_profiler = << >> THEN 0 ELSE 1,
              recording |-> stopped.recording]

\* the time the jar prints, in ms: none, one, and two that do not divide
\* num_docs * 1000
TimesMs == {0, 1, 3, 7}

\* one jar run for a call of run_benchmark: as JarRuns, with those times
BenchRuns(size, attrs, ql) ==
    JarRuns(size, attrs, ql)
    \cup [kind : {"completed"},
          insert_line : {<<[n |-> NUM_DOCS, s |-> size, a |-> a, t |-> t]>> :
                            a \in {attrs, attrs + 1}, t \in TimesMs},
          query_line : IF ql = << >> THEN {<< >>}
                       ELSE {<<[ids |-> NUM_DOCS, links |-> ql[1], t |-> t]>> :
                                t \in {0, 3}}]

\* the calls of run_benchmark explored: the first multi-attribute test on a
\* database of each type, and what the environment answers
BenchCalls ==
    UNION {
        [size : {MULTI_ATTR_TESTS[1].size}, attrs : {MULTI_ATTR_TESTS[1].attrs},
         query_links : {ql}, proc : BenchRuns(MULTI_ATTR_TESTS[1].size,
                                              MULTI_ATTR_TESTS[1].attrs, ql),
         db_type : {"mongodb", "oracle", "postgresql"},
         server_profile : BOOLEAN, SERVER_PROFILER_AVAILABLE : {TRUE},
         flamegraph_found : BOOLEAN, pgrep_finds : BOOLEAN,
         popen : {"runs", "exits", "raises"}, stop : {"stopped", "error"},
         svg : {TRUE}, flame_graph : BOOLEAN, makedirs_raises : BOOLEAN]
        : ql \in {<< >>, <<QUERY_LINKS>>} }

\* a ServerProfiler before a call of stop_profiling: start_profiling never
\* called, or called once
ProfilerCalls ==
    [database : {"mongodb", "oracle"}, started : BOOLEAN,
     flamegraph_found : {TRUE}, pgrep_finds : BOOLEAN,
     popen : {"runs", "exits", "raises"}, stop : {"stopped", "error"},
     svg : BOOLEAN]

\* ServerProfiler(database), start_profiling() if asked, stop_profiling()
stop_profiling_call(e) ==
    LET made == ServerProfiler(e.database, e)
        s == start_profiling(made.obj, e)
        obj == IF e.started THEN s.obj ELSE made.obj
        recording == IF e.started THEN s.recording ELSE FALSE
    IN  [launched |-> obj.perf_process # "unset"] @@ stop_profiling(obj, e, recording)

\* run_benchmark of run_oracle_only_benchmarks.py: the record for one jar run
run_benchmark_oracle_only(size, attrs, num_docs, proc) ==
    IF proc.kind = "TimeoutExpired" THEN FailRecord("Timeout")
    ELSE IF proc.kind # "completed" THEN FailRecord(proc.kind)
    ELSE IF ~ (PrimaryMatch(proc.insert_line, size, attrs, num_docs)
               \/ AltMatch(proc.insert_line, size, num_docs))
    THEN FailRecord("Could not parse output")
    ELSE IF proc.insert_line[1].t = 0
    THEN FailRecord("float division by zero")     \* caught by except Exception
    ELSE [success |-> TRUE, time_ms |-> proc.insert_line[1].t,
          throughput |-> Throughput(num_docs, proc.insert_line[1].t),
          size |-> size, attrs |-> attrs, num_docs |-> num_docs]

\* the calls of it explored: the first single-attribute test
OracleOnlyCalls ==
    [size : {SINGLE_ATTR_TESTS[1].size}, attrs : {SINGLE_ATTR_TESTS[1].attrs},
     proc : BenchRuns(SINGLE_ATTR_TESTS[1].size, SINGLE_ATTR_TESTS[1].attrs, << >>)]

CallInit ==
    /\ op_pc = "called" /\ op_ret = NoneRec
    /\ \/ op_fn = "start_database" /\ op_args \in StartCalls
       \/ op_fn = "report_main" /\ op_args \in ReportCalls
       \/ op_fn = "main" /\ op_args \in MainCalls
       \/ op_fn = "run_benchmark" /\ op_args \in BenchCalls
       \/ op_fn = "stop_profiling" /\ op_args \in ProfilerCalls
       \/ op_fn = "run_benchmark_oracle_only" /\ op_args \in OracleOnlyCalls

op_frame == UNCHANGED <<suite_vars, calc_vars, mon_vars>>

\* start_database(service_name, db_type)
CallStartDatabase ==
    /\ op_pc = "called" /\ op_fn = "start_database"
    /\ op_ret' = start_database(op_args.db_type, op_args.script)
    /\ op_pc' = "returned"
    /\ UNCHANGED <<op_fn, op_args>>
    /\ op_frame

\* main() of a report generator
CallReportMain ==
    /\ op_pc = "called" /\ op_fn = "report_main"
    /\ op_ret' = IF op_args.generator = "generate_benchmark_report"
                 THEN generate_benchmark_report_main(op_args)
                 ELSE generate_report_main(op_args)
    /\ op_pc' = "returned"
    /\ UNCHANGED <<op_fn, op_args>>
    /\ op_frame

\* main() of run_article_benchmarks.py
CallMain ==
    /\ op_pc = "called" /\ op_fn = "main"
    /\ op_ret' = main(op_args)
    /\ op_pc' = "returned"
    /\ UNCHANGED <<op_fn, op_args>>
    /\ op_frame

\* run_benchmark(...)
CallRunBenchmark ==
    /\ op_pc = "called" /\ op_fn = "run_benchmark"
    /\ op_ret' = run_benchmark_call(op_args)
    /\ op_pc' = "returned"
    /\ UNCHANGED <<op_fn, op_args>>
    /\ op_frame

\* ServerProfiler.stop_profiling()
CallStopProfiling ==
    /\ op_pc = "called" /\ op_fn = "stop_profiling"
    /\ op_ret' = stop_profiling_call(op_args)
    /\ op_pc' = "returned"
    /\ UNCHANGED <<op_fn, op_args>>
    /\ op_frame

\* run_oracle_only_benchmarks.run_benchmark(...)
CallRunBenchmarkOracleOnly ==
    /\ op_pc = "called" /\ op_fn = "run_benchmark_oracle_only"
    /\ op_ret' = [raised |-> None,
                  result |-> run_benchmark_oracle_only(op_args.size, op_args.attrs,
                                                       NUM_DOCS, op_args.proc)]
    /\ op_pc' = "returned"
    /\ UNCHANGED <<op_fn, op_args>>
    /\ op_frame

CallNext ==
    \/ CallStartDatabase
    \/ CallReportMain
    \/ CallMain
    \/ CallRunBenchmark
    \/ CallStopProfiling
    \/ CallRunBenchmarkOracleOnly

InitCall == CallInit /\ SuiteIdle /\ CalcIdle /\ MonIdle
SpecCall == InitCall /\ [][CallNext]_vars

\* the first probe (0-based) that finds the database ready, << >> if none
first_ready(t, s) ==
    LET ready == {i \in 0..(max_probes(t) - 1) : ProbeOutcome(s, i) = "ready"}
    IN  IF s.rc # 0 \/ ready = {} THEN << >>
        ELSE <<CHOOSE i \in ready : \A j \in ready : i <= j>>

\* C11: start_database always ends with a boolean: False at once (no probe)
\* if systemctl start fails; otherwise at most 15 probes 2 s apart (mongodb,
\* postgresql) or 40 probes 3 s apart (oracle), True at the first probe that
\* succeeds, False no later than after the last probe has failed.
C11_StartDatabaseEndsWithBoolean ==
    (op_pc = "returned" /\ op_fn = "start_database") =>
        LET t == op_args.db_type
            s == op_args.script
            waited == op_ret.probes * wait_interval(t)
        IN  /\ op_ret.ret \in {"True", "False"}
            /\ s.rc # 0 => (op_ret.ret = "False" /\ op_ret.probes = 0)
            /\ op_ret.probes <= (IF t = "oracle" THEN 40 ELSE 15)
            /\ waited <= (IF t = "oracle" THEN 120 ELSE 30)
            /\ op_ret.ret = "True" <=> first_ready(t, s) # << >>
            /\ op_ret.ret = "True" => op_ret.probes = first_ready(t, s)[1] + 1


\* the input files of the generator called that are missing
missing_inputs ==
    {k \in DOMAIN op_args \ {"generator", "scp"} : op_args[k] = "missing"}

\* C12: for every report generator, when one of its JSON input files is
\* missing, loading raises nothing, and report generation completes with a
\* "No data available" section in place of the missing data.
C12_MissingInputGivesPlaceholder ==
    (op_pc = "returned" /\ op_fn = "report_main" /\ missing_inputs # {}) =>
        /\ op_ret.raised = None
        /\ op_ret.report # NoneRec
        /\ \A k \in missing_inputs : op_ret.report[k] = "No data available"

\* the run of main() has returned
MainReturned == op_pc = "returned" /\ op_fn = "main"

\* run_test_suite call number i tests with indexes and queries
is_indexed_suite(i) ==
    /\ op_ret.suites[i].enable_queries
    /\ \A k \in 1..Len(op_ret.suites[i].databases) :
           Spell("-i") \in {split(op_ret.suites[i].databases[k].flags)[n] :
                               n \in 1..Len(split(op_ret.suites[i].databases[k].flags))}

\* C13: with --full-comparison and --randomize-order, when the random choice
\* selects 'with index first' every indexed suite (with queries) is run
\* before every no-index suite, and when it selects 'no index first' every
\* no-index suite is run before every indexed suite.
C13_RandomChoiceDecidesOrder ==
    (MainReturned /\ op_args.full_comparison /\ op_args.randomize_order) =>
        \A i, j \in 1..Len(op_ret.suites) :
            IF op_ret.run_index_first
            THEN (is_indexed_suite(i) /\ ~ is_indexed_suite(j)) => i < j
            ELSE (~ is_indexed_suite(i) /\ is_indexed_suite(j)) => i < j

\* the run_test_suite calls of main() that are insert-only: all of them
\* under --no-index, Part 1 under --full-comparison
insert_only_suites ==
    {i \in 1..Len(op_ret.suites) :
        IF op_args.full_comparison
        THEN op_ret.suites[i].test_type \in {"SINGLE ATTRIBUTE (NO INDEX)",
                                             "MULTI ATTRIBUTE (NO INDEX)"}
        ELSE op_args.no_index}

\* the flag words DATABASES gives the database, -nostats included if asked,
\* without the index flags
flags_to_keep(key) ==
    LET i == CHOOSE n \in 1..Len(DATABASES) : DATABASES[n].key = key
        words == IF op_args.nostats /\ DATABASES[i].db_type = "oracle"
                 THEN Append(DATABASES[i].flags, "-nostats")
                 ELSE DATABASES[i].flags
        kept == SelectSeq(words, LAMBDA w : w \notin {"-i", "-mv"})
    IN  [n \in 1..Len(kept) |-> Spell(kept[n])]

\* C14: in insert-only mode (--no-index with or without --queries and
\* --nostats, and Part 1 of --full-comparison) no jar command line of any
\* database carries -i, -mv or -q, and the other flags of the database
\* (-p, -j, -oj, -rd, -nostats) are all kept, in their order.
C14_InsertOnlyStripsIndexAndQueryFlags ==
    MainReturned =>
        \A i \in insert_only_suites :
            /\ \A c \in jar_cmds(op_ret.suites[i]) :
                  /\ \A n \in 1..Len(c.flags) :
                         c.flags[n] \notin {Spell("-i"), Spell("-mv")}
                  /\ c.q = << >>
            /\ \A k \in 1..Len(op_ret.suites[i].databases) :
                  \A t \in 1..Len(op_ret.suites[i].test_configs) :
                      jar_cmd(op_ret.suites[i], op_ret.suites[i].databases[k],
                              op_ret.suites[i].test_configs[t]).flags
                          = flags_to_keep(op_ret.suites[i].databases[k].key)

\* --no-index --queries --nostats has run, and the Oracle jar was given
\* -oj -rd -nostats
C14_Witness ==
    /\ MainReturned
    /\ op_args.no_index /\ op_args.queries /\ op_args.nostats
    /\ ~ op_args.full_comparison
    /\ \E c \in jar_cmds(op_ret.suites[1]) :
           c.flags = <<Spell("-oj"), Spell("-rd"), Spell("-nostats")>>

\* C15: with --large-items, in standard mode and in --full-comparison mode
\* alike, every suite that is run tests each database on the five standard
\* configurations followed by the three large ones, each exactly once.
C15_LargeItemsAppendedOnce ==
    (MainReturned /\ op_args.large_items) =>
        \A i \in 1..Len(op_ret.suites) :
            op_ret.suites[i].test_configs \in
                {SINGLE_ATTR_TESTS \o LARGE_SINGLE_ATTR_TESTS,
                 MULTI_ATTR_TESTS \o LARGE_MULTI_ATTR_TESTS}

\* C16: for two disk snapshots of the same device taken with interval = 5
\* whose sectors_written counters differ by 10240, _calculate_disk_usage
\* reports write_mb_s = 1.0 (100 hundredths) for that device.
C16_TenThousandSectorsInFiveSeconds ==
    (RatesReturned("disk") /\ call_interval = 5) =>
        \A d \in DOMAIN call_prev \cap DOMAIN call_curr :
            call_curr[d].sectors_written - call_prev[d].sectors_written = 10240
                => (d \in DOMAIN call_ret /\ call_ret[d].write_mb_s = 100)

\* a call with interval 5 on a device whose sectors_written grew by 10240
C16_Witness ==
    /\ RatesReturned("disk") /\ call_interval = 5
    /\ \E d \in DOMAIN call_ret :
           /\ call_curr[d].sectors_written - call_prev[d].sectors_written = 10240
           /\ call_ret[d].write_mb_s = 100

\* the monitor process has ended
MonEnded == mon_pc \in {"exited", "killed"}

\* the file save_results wrote holds every sample recorded
FileComplete ==
    /\ output_file # NoneRec
    /\ output_file.metrics = metrics
    /\ output_file.monitoring_config.samples_collected = Len(metrics)

\* C17: graceful shutdown. After SIGTERM (or SIGINT, same handler) has been
\* delivered to a running monitor at most one further snapshot is collected
\* and save_results never runs twice; once the monitor has ended, the loop
\* was left and save_results has run exactly once and has written every
\* sample recorded, samples_collected being their number. A loop left by an
\* exception also ends with save_results run exactly once.
C17_GracefulShutdown ==
    /\ term_len # << >> =>
          /\ Len(metrics) <= term_len[1] + 1
          /\ save_count <= 1
          /\ MonEnded => (save_count = 1 /\ FileComplete)
    /\ (term_len = << >> /\ mon_pc \in {"exited", "blocked_save"}) =>
          (save_count = 1 /\ FileComplete)

\* C18: for every monitor interval accepted, what the driver merges after
\* stop_monitoring is the data of this run's monitor: the monitor has
\* completed save_results before the driver reads the metrics file, the
\* SIGTERM wait and SIGKILL never ending it before it wrote its output.
C18_MonitorSavedBeforeMerge ==
    (drv_pc = "merged" /\ monitor_proc # None) =>
        /\ save_count >= 1
        /\ resource_data # NoneRec
        /\ resource_data.metrics = metrics

\* the services with a systemctl start issued and no systemctl stop after it
started_services == {s \in Services : svc[s] = "started"}

\* C19: test isolation. Whenever a benchmark jar invocation of
\* run_test_suite is in progress, the only service with a systemctl start
\* issued and no later systemctl stop is the service of the database under
\* test, in both modes, also after start_database returned False for an
\* earlier database.
C19_OnlyServiceUnderTestStarted ==
    suite_pc = "bench" => started_services = {db.service}

\* C20: when run_test_suite returns normally every service it issued
\* systemctl start for has had systemctl stop issued after its last start,
\* also a service whose start command succeeded but whose readiness wait
\* timed out.
C20_AllStoppedOnReturn ==
    suite_pc = "returned" => started_services = {}


\* ---------------------------------------------------------------- C21
BenchReturned == op_pc = "returned" /\ op_fn = "run_benchmark"

\* C21: when run_benchmark ends, by a record or by an exception,
\* stop_profiling was called exactly once if a profiling session was started
\* (start_profiling returned True), and never if none was started.
C21_ProfilingStoppedExactlyOnce ==
    BenchReturned => op_ret.stop_calls = op_ret.started

\* ---------------------------------------------------------------- C23
StopReturned == op_pc = "returned" /\ op_fn = "stop_profiling"

\* C23: stop_profiling on a ServerProfiler without an active session
\* (start_profiling never called, or it returned before launching perf)
\* returns None and raises nothing.
C23_StopWithoutSessionReturnsNone ==
    (StopReturned /\ ~ op_ret.launched)
        => (op_ret.raised = None /\ op_ret.ret = None)

\* ---------------------------------------------------------------- C24
AnyBenchReturned ==
    op_pc = "returned" /\ op_fn \in {"run_benchmark", "run_benchmark_oracle_only"}

\* the jar was run: nothing was raised before the try
jar_ran ==
    op_fn = "run_benchmark_oracle_only"
    \/ ~ (op_args.flame_graph /\ op_args.makedirs_raises)

\* the jar printed an insert line the patterns match, with a time of 0 ms
parsed_zero ==
    /\ op_args.proc.kind = "completed"
    /\ AltMatch(op_args.proc.insert_line, op_args.size, NUM_DOCS)
    /\ op_args.proc.insert_line[1].t = 0

\* x is y / z rounded to the nearest integer, a tie going to the even one
IsRounded(x, y, z) ==
    LET d == IF x * z >= y THEN x * z - y ELSE y - x * z
    IN  2 * d < z \/ (2 * d = z /\ x % 2 = 0)

\* C24: a record with success = TRUE has an integer time_ms >= 1 and a
\* throughput (in hundredths) of num_docs * 1000 / time_ms rounded to two
\* decimals; when the parsed insert time is 0 ms the call returns a failure
\* record and raises nothing.
C24_SuccessRecordsHaveRoundedThroughput ==
    AnyBenchReturned =>
        /\ (op_ret.raised = None /\ op_ret.result.success) =>
              /\ op_ret.result.time_ms \in Nat
              /\ op_ret.result.time_ms >= 1
              /\ IsRounded(op_ret.result.throughput,
                           op_ret.result.num_docs * 1000 * 100,
                           op_ret.result.time_ms)
        /\ (jar_ran /\ parsed_zero) =>
              /\ op_ret.raised = None
              /\ ~ op_ret.result.success
              /\ "error" \in DOMAIN op_ret.result

C24_Witness ==
    /\ AnyBenchReturned
    /\ op_ret.raised = None
    /\ op_ret.result.success
    /\ op_ret.result.time_ms = 7
    /\ op_ret.result.throughput = 142857143

\* ---------------------------------------------------------------- C22
\* C22: when main() ends, by returning or by an exception of a test suite,
\* in standard mode and in --full-comparison mode, stop_monitoring was
\* called on the monitor process if --monitor started one.
C22_MonitorStoppedBeforeDriverEnds ==
    (MainReturned /\ op_args.monitor /\ op_ret.monitor_proc # None)
        => op_ret.stop_monitoring_calls >= 1

\* ---------------------------------------------------------------- C25
\* a step in which one call of collect_snapshot runs to its end (or to the
\* print of its summary)
CollectStep == mon_pc = "collect" /\ mon_pc' \in {"sleep", "blocked_snapshot"}

\* the samples after the step are the samples before it, with n more
AppendedBy(n) ==
    /\ Len(metrics') = Len(metrics) + n
    /\ SubSeq(metrics', 1, Len(metrics)) = metrics

\* the CPU counters the call read sum to what the previous call's did
ZeroCpuDelta ==
    SeqSum(<<procfs'.stat.user, procfs'.stat.nice, procfs'.stat.system,
             procfs'.stat.idle, procfs'.stat.iowait, procfs'.stat.irq,
             procfs'.stat.softirq, procfs'.stat.steal>>)
    = SeqSum(<<prev_cpu_stats.user, prev_cpu_stats.nice, prev_cpu_stats.system,
               prev_cpu_stats.idle, prev_cpu_stats.iowait, prev_cpu_stats.irq,
               prev_cpu_stats.softirq, prev_cpu_stats.steal>>)

\* C25: the first call of collect_snapshot (no previous counters) records no
\* sample; a later call records exactly one sample, or none when the CPU
\* total has not changed since the previous call; every call replaces the
\* previous CPU, disk and network counters by the ones it read; and no step
\* of the monitor removes or reorders recorded samples.
C25_SnapshotRecordsOneSampleAfterFirst ==
    [][ /\ CollectStep =>
            /\ IF prev_cpu_stats = NoneRec THEN AppendedBy(0)
               ELSE IF ZeroCpuDelta THEN AppendedBy(0)
               ELSE AppendedBy(1)
            /\ prev_cpu_stats' = procfs'.stat
            /\ prev_disk_stats' = procfs'.diskstats
            /\ prev_net_stats' = procfs'.net_dev
        /\ \E n \in 0..1 : AppendedBy(n) ]_vars

\* two samples were recorded and a call has just ended with the current
\* counters kept as the previous ones
C25_Witness ==
    /\ mon_pc = "sleep" /\ sleep_left = self_interval
    /\ Len(metrics) = 2
    /\ prev_cpu_stats = procfs.stat
    /\ prev_disk_stats = procfs.diskstats
    /\ prev_net_stats = procfs.net_dev

=============================================================================
